---- MODULE Spec2Model ----
(***************************************************************************)
(* Model of ResumeAIService.enhance (src/src/resumeAIService.ts) and of    *)
(* GeminiService.generateContent (src/src/geminiService.ts).               *)
(*                                                                         *)
(* A "YYYY-MM" string is the pair <<year, month>>; the literal end date    *)
(* meaning "until now" is the pair Present.  A JavaScript Date built by    *)
(* new Date(s + '-01') is the whole number of months since year 0 (every   *)
(* Date the code builds is the first day of a month, under a time zone at  *)
(* or east of UTC without daylight saving, e.g. UTC or Asia/Shanghai);     *)
(* getTime() differences are whole days, taken from the Gregorian          *)
(* calendar.                                                               *)
(***************************************************************************)
EXTENDS Integers, Sequences, FiniteSets, TLC

VARIABLES
    pc,                  \* position inside enhance
    workExperiences,     \* profile.workExperiences (caller supplied)
    birthday,            \* profile.birthday (NoBirthday when absent)
    experience,          \* job.experience (the requirement string)
    totalMonths,
    supplementYears,
    sortedExistingExps,
    insertPositions,
    posIdx,              \* cursor of "for (const pos of insertPositions)"
    remainingYears,
    currentEnd,
    supplementSegments,
    allWorkExperiences,
    job,                 \* language and job titles of the request
    service,             \* what each candidate model answers when called
    modelIdx,            \* cursor of "for (const modelName of models)"
    calls,               \* the models generateContent has called, in order
    inFlight,            \* cursors of the generation calls not yet settled
    aiResponse,          \* the text generateContent returned
    error,               \* the error enhance throws
    result,              \* the ResumeData enhance returns
    text,                \* the raw text handed to the validator callback
    verdict              \* what the validator callback did with it

timelineVars == <<pc, workExperiences, birthday, experience, totalMonths,
                  supplementYears, sortedExistingExps, insertPositions, posIdx,
                  remainingYears, currentEnd, supplementSegments,
                  allWorkExperiences>>

invokeVars == <<job, service, modelIdx, calls, inFlight, aiResponse, error,
                result>>

validatorVars == <<text, verdict>>

vars == <<timelineVars, invokeVars, validatorVars>>

-----------------------------------------------------------------------------
(* Bounds and input pools                                                   *)

MaxExps == 2

Present == <<0, 0>>
NoBirthday == <<0, 0>>

\* new Date() at the time of the request
now == <<2024, 4>>

DatePool == { <<2017, 1>>, <<2019, 1>>, <<2020, 1>>, <<2021, 2>>,
              <<2021, 7>>, <<2022, 1>> }

BirthdayPool == { NoBirthday, <<1996, 3>>, <<2000, 5>> }

\* job.experience: "a-b年" is [kind |-> "range"], "a年以上" is
\* [kind |-> "atLeast"], anything else is [kind |-> "other"]
ExperiencePool == { [kind |-> "other",   a |-> 0, b |-> 0],
                    [kind |-> "range",   a |-> 1, b |-> 3],
                    [kind |-> "atLeast", a |-> 3, b |-> 0],
                    [kind |-> "range",   a |-> 5, b |-> 10],
                    [kind |-> "atLeast", a |-> 8, b |-> 0] }

-----------------------------------------------------------------------------
(* Strings and Dates                                                        *)

Min(a, b) == IF a <= b THEN a ELSE b
Max(a, b) == IF a >= b THEN a ELSE b

\* a.localeCompare(b) < 0 on two "YYYY-MM" strings
StrLess(a, b) == a[1] < b[1] \/ (a[1] = b[1] /\ a[2] < b[2])

\* new Date(s + '-01')
DateOf(s) == s[1] * 12 + (s[2] - 1)

\* `${d.getFullYear()}-${String(d.getMonth() + 1).padStart(2, '0')}`
FormatYM(d) == <<d \div 12, (d % 12) + 1>>

IsLeap(y) == (y % 4 = 0 /\ y % 100 # 0) \/ y % 400 = 0

CumDays == <<0, 31, 59, 90, 120, 151, 181, 212, 243, 273, 304, 334>>

\* d.getTime() in days, counted from the first day of year 0
GetTimeDays(d) ==
    LET y == d \div 12
        m == d % 12
    IN  365 * y + (y + 3) \div 4 - (y + 99) \div 100 + (y + 399) \div 400
        + CumDays[m + 1] + (IF m >= 2 /\ IsLeap(y) THEN 1 ELSE 0)

\* Math.floor((b.getTime() - a.getTime()) / (1000*60*60*24*30.44))
FloorMonths(a, b) == ((GetTimeDays(b) - GetTimeDays(a)) * 100) \div 3044

\* Math.floor(((b.getTime() - a.getTime()) / (1000*60*60*24*30.44)) / 12)
FloorYears(a, b) == ((GetTimeDays(b) - GetTimeDays(a)) * 100) \div 36528

\* `${currentYear}-${String(currentMonth).padStart(2, '0')}`
nowStr == <<now[1], now[2]>>

EndOrNow(exp) == IF exp.endDate = Present THEN nowStr ELSE exp.endDate

-----------------------------------------------------------------------------
(* 1. earliest work date, 2. actual tenure, 3. requirement                  *)

birthYear == IF birthday = NoBirthday THEN 2000 ELSE birthday[1]

earliestWorkDate == <<birthYear + 19, 7>>

\* a date field the payload does not carry (undefined)
NoDate == <<0, 1>>

\* exp.startDate.split('-') / exp.endDate.split('-') on an undefined field
SplitThrows(exps) ==
    \E i \in 1..Len(exps) : exps[i].startDate = NoDate \/ exps[i].endDate = NoDate

\* the month span with the "(endMonth - startMonth)" term left out
ExpMonthsWholeYears(exp) ==
    LET endYear == IF exp.endDate = Present THEN now[1] ELSE exp.endDate[1]
    IN  (endYear - exp.startDate[1]) * 12

ExpMonths(exp) ==
    LET endYear  == IF exp.endDate = Present THEN now[1] ELSE exp.endDate[1]
        endMonth == IF exp.endDate = Present THEN now[2] ELSE exp.endDate[2]
    IN  (endYear - exp.startDate[1]) * 12 + (endMonth - exp.startDate[2])

RECURSIVE SumMonths(_)
SumMonths(exps) ==
    IF exps = <<>> THEN 0
    ELSE ExpMonths(Head(exps)) + SumMonths(Tail(exps))

actualYears == totalMonths \div 12

parseExperienceRequirement(req) ==
    IF req.kind = "range" THEN [min |-> req.a, max |-> req.b]
    ELSE IF req.kind = "atLeast" THEN [min |-> req.a, max |-> 999]
    ELSE [min |-> 0, max |-> 999]

requiredExp == parseExperienceRequirement(experience)

needsSupplement == actualYears < requiredExp.min

-----------------------------------------------------------------------------
(* JavaScript strings and JSON values                                       *)
(*                                                                          *)
(* A string is a sequence of characters.  The two characters of the         *)
(* localized "not available" placeholder are written "zan" and "wu".        *)

Upper == <<"A","B","C","D","E","F","G","H","I","J","K","L","M",
           "N","O","P","Q","R","S","T","U","V","W","X","Y","Z">>
Lower == <<"a","b","c","d","e","f","g","h","i","j","k","l","m",
           "n","o","p","q","r","s","t","u","v","w","x","y","z">>

IsSpace(c) == c \in {" ", "\t", "\n"}

ToLowerChar(c) ==
    IF \E i \in 1..Len(Upper) : Upper[i] = c
    THEN Lower[CHOOSE i \in 1..Len(Upper) : Upper[i] = c]
    ELSE c

\* s.toLowerCase()
ToLowerCase(s) == [i \in 1..Len(s) |-> ToLowerChar(s[i])]

RECURSIVE TrimStart(_)
TrimStart(s) ==
    IF s # <<>> /\ IsSpace(Head(s)) THEN TrimStart(Tail(s)) ELSE s

RECURSIVE TrimEnd(_)
TrimEnd(s) ==
    IF s # <<>> /\ IsSpace(s[Len(s)]) THEN TrimEnd(SubSeq(s, 1, Len(s) - 1)) ELSE s

\* s.trim()
Trim(s) == TrimEnd(TrimStart(s))

\* JSON values: t is the JavaScript type, s the characters of a string or
\* the digits of a number, elems the String() of each element of an array
Undefined  == [t |-> "undefined", s |-> <<>>, elems |-> <<>>]
JsonNull   == [t |-> "null",      s |-> <<>>, elems |-> <<>>]
JStr(s)    == [t |-> "string",    s |-> s,    elems |-> <<>>]
JNum(s)    == [t |-> "number",    s |-> s,    elems |-> <<>>]
JArr(es)   == [t |-> "array",     s |-> <<>>, elems |-> es]

RECURSIVE Join(_)
Join(es) ==
    IF es = <<>> THEN <<>>
    ELSE IF Len(es) = 1 THEN es[1]
    ELSE es[1] \o <<",">> \o Join(Tail(es))

\* String(val)
StringOf(val) ==
    IF val.t = "undefined" THEN <<"u","n","d","e","f","i","n","e","d">>
    ELSE IF val.t = "null" THEN <<"n","u","l","l">>
    ELSE IF val.t = "array" THEN Join(val.elems)
    ELSE val.s

PlaceholderTokens ==
    { <<>>,
      <<"u","n","d","e","f","i","n","e","d">>,
      <<"n","u","l","l">>,
      <<"n","a","n">>,
      <<"zan","wu">>,
      <<"n","o","n","e">> }

\* isIllegal without ".trim().toLowerCase()"
isIllegalVerbatim(val) ==
    IF val.t = "undefined" \/ val.t = "null" THEN TRUE
    ELSE StringOf(val) \in PlaceholderTokens

\* isIllegal (lines 20-25)
isIllegal(val) ==
    IF val.t = "undefined" \/ val.t = "null" THEN TRUE
    ELSE ToLowerCase(Trim(StringOf(val))) \in PlaceholderTokens

requiredFields == <<"position", "yearsOfExperience", "personalIntroduction",
                    "professionalSkills", "workExperience">>

\* A raw response is a sequence of tokens: the fence markers "```json" and
\* "```", white space, prose (anything that is not JSON) and a JSON document.
\* A JSON document is an object with its fields (an absent field reads as
\* Undefined) or another JSON value (kind "null", "number", "array").
NoFields == [f \in { requiredFields[i] : i \in 1..Len(requiredFields) } |-> Undefined]

Tok(k)  == [tok |-> k, kind |-> "none", fields |-> NoFields]
JsonObject(fs) == [tok |-> "json", kind |-> "object", fields |-> fs]
JsonOther(k)   == [tok |-> "json", kind |-> k, fields |-> NoFields]

\* text.replace(/```json/g, '').replace(/```/g, '')
StripFences(raw) ==
    LET Keep(x) == x.tok # "fenceJson" /\ x.tok # "fence"
    IN  SelectSeq(raw, Keep)

RECURSIVE TrimTokensStart(_)
TrimTokensStart(s) ==
    IF s # <<>> /\ Head(s).tok = "ws" THEN TrimTokensStart(Tail(s)) ELSE s

RECURSIVE TrimTokensEnd(_)
TrimTokensEnd(s) ==
    IF s # <<>> /\ s[Len(s)].tok = "ws"
    THEN TrimTokensEnd(SubSeq(s, 1, Len(s) - 1)) ELSE s

\* jsonStr (lines 365 and 382)
JsonStr(raw) == TrimTokensEnd(TrimTokensStart(StripFences(raw)))

\* JSON.parse(jsonStr) does not throw
Parses(jsonStr) == Len(jsonStr) = 1 /\ jsonStr[1].tok = "json"

\* data[field] throws a TypeError: data is null
ReadThrows(data) == data.kind = "null"

\* the validator callback (lines 363-379) returns true (it throws otherwise)
ValidatorAccepts(raw) ==
    LET jsonStr == JsonStr(raw)
    IN  /\ Parses(jsonStr)
        /\ ~ReadThrows(jsonStr[1])
        /\ \A i \in 1..Len(requiredFields) :
               ~isIllegal(jsonStr[1].fields[requiredFields[i]])

-----------------------------------------------------------------------------
(* Responses handed to the validator                                        *)

sPro   == <<"P","r","o">>
sDev   == <<"D","e","v">>
sNA    == <<"n","/","a">>
sNulls == <<"n","u","l","l","s">>
sObj   == <<"[","o","b","j","e","c","t"," ","O","b","j","e","c","t","]">>

\* values a required field should be accepted with
GoodValues ==
    { JStr(sPro), JStr(sDev), JStr(sNA), JStr(sNulls),
      JNum(<<"5">>), JNum(<<"0">>),
      JArr(<<sObj>>), JArr(<<sObj, sObj>>) }

\* absent, null, or a placeholder token up to case and surrounding white space
\* (an array is compared through its String() form)
BadValues ==
    { Undefined, JsonNull,
      JStr(<<>>), JStr(<<" ">>),
      JStr(<<"u","n","d","e","f","i","n","e","d">>),
      JStr(<<"n","u","l","l">>), JStr(<<"N","U","L","L">>),
      JStr(<<"N","a","N">>), JStr(<<"n","a","n">>),
      JStr(<<"n","o","n","e">>), JStr(<<" ","N","o","n","e"," ">>),
      JStr(<<"zan","wu">>), JStr(<<" ","zan","wu","\n">>),
      JArr(<<>>), JArr(<< <<>> >>), JArr(<< <<"n","u","l","l">> >>) }

PositionPool     == { Undefined, JStr(sDev), JStr(<<"n","o","n","e">>) }
YearsPool        == { Undefined, JNum(<<"0">>), JStr(<<"N","a","N">>) }
IntroductionPool == { v \in GoodValues \cup BadValues : v.t \in {"undefined", "null", "string"} }
SkillsPool       == { v \in GoodValues \cup BadValues : v.t \in {"undefined", "array"} }
WorkPool         == { JArr(<<sObj>>), JArr(<<>>) }

ObjectPool ==
    { JsonObject([position             |-> a,
                  yearsOfExperience    |-> b,
                  personalIntroduction |-> c,
                  professionalSkills   |-> d,
                  workExperience       |-> e]) :
        <<a, b, c, d, e>> \in
            PositionPool \X YearsPool \X IntroductionPool \X SkillsPool \X WorkPool }

DocumentPool == ObjectPool \cup { JsonOther("null"), JsonOther("number"), JsonOther("array") }

\* layouts that leave exactly one JSON document once the fences are stripped
\* and the rest is trimmed
Layouts(doc) ==
    { <<doc>>,
      <<Tok("ws"), doc, Tok("ws")>>,
      <<Tok("fenceJson"), Tok("ws"), doc, Tok("ws"), Tok("fence")>>,
      <<Tok("fence"), Tok("ws"), doc, Tok("ws"), Tok("fence")>> }

\* layouts that do not parse: nothing, prose alone, prose around the document
BrokenLayouts(doc) ==
    { <<>>,
      <<Tok("prose")>>,
      <<Tok("prose"), Tok("ws"), Tok("fenceJson"), doc, Tok("fence")>>,
      <<doc, Tok("ws"), Tok("prose")>> }

AllGood == JsonObject([position             |-> JStr(sDev),
                       yearsOfExperience    |-> JNum(<<"5">>),
                       personalIntroduction |-> JStr(sPro),
                       professionalSkills   |-> JArr(<<sObj, sObj>>),
                       workExperience       |-> JArr(<<sObj>>)])

ValidatorTexts ==
    UNION { Layouts(doc) : doc \in DocumentPool } \cup BrokenLayouts(AllGood)

-----------------------------------------------------------------------------
(* Initial states                                                           *)

Intervals == { [startDate |-> s, endDate |-> e] :
                 <<s, e>> \in { p \in DatePool \X (DatePool \cup {Present}) :
                                  p[2] = Present \/ ~StrLess(p[2], p[1]) } }

ExpLists == UNION { [1..n -> Intervals] : n \in 0..MaxExps }

\* the state of enhance before its first statement
Fresh ==
    /\ pc = "tenure"
    /\ totalMonths = 0
    /\ supplementYears = 0
    /\ sortedExistingExps = <<>>
    /\ insertPositions = <<>>
    /\ posIdx = 1
    /\ remainingYears = 0
    /\ currentEnd = Present
    /\ supplementSegments = <<>>
    /\ allWorkExperiences = <<>>
    /\ modelIdx = 1
    /\ calls = <<>>
    /\ inFlight = {}
    /\ aiResponse = <<>>
    /\ error = [kind |-> "none", reason |-> ""]
    /\ result = [position |-> "", yearsOfExperience |-> Undefined,
                 personalIntroduction |-> Undefined,
                 professionalSkills |-> Undefined, workExperience |-> Undefined]

InitTimeline ==
    /\ Fresh
    /\ workExperiences \in ExpLists
    /\ birthday \in BirthdayPool
    /\ experience \in ExperiencePool
    /\ job = [language |-> "chinese", title_english |-> "", title_chinese |-> "HouDuan"]
    /\ service = <<[ok |-> FALSE, reason |-> "503", text |-> <<>>],
                   [ok |-> FALSE, reason |-> "503", text |-> <<>>]>>
    /\ text = <<>>
    /\ verdict = "none"

-----------------------------------------------------------------------------
(* Actions of the timeline computation                                      *)

\* The statements up to line 361 are outside the try block: a TypeError of
\* the forEach callback leaves enhance as it is.
ComputeTenure ==
    /\ pc = "tenure"
    /\ IF SplitThrows(workExperiences)
       THEN /\ pc' = "thrown"
            /\ error' = [kind |-> "TypeError", reason |-> ""]
            /\ UNCHANGED <<totalMonths, supplementYears>>
       ELSE /\ totalMonths' = SumMonths(workExperiences)
            /\ LET years == totalMonths' \div 12
                   need  == years < requiredExp.min
               IN  /\ supplementYears' = IF need THEN requiredExp.min - years ELSE 0
                   /\ pc' = IF need /\ Len(workExperiences) > 0 THEN "gaps" ELSE "merge"
            /\ UNCHANGED error
    /\ UNCHANGED <<job, service, modelIdx, calls, inFlight, aiResponse, result,
                   validatorVars, workExperiences, birthday, experience,
                   sortedExistingExps, insertPositions, posIdx, remainingYears,
                   currentEnd, supplementSegments, allWorkExperiences>>

-----------------------------------------------------------------------------
(* Gap detection (lines 85-118)                                             *)

\* Array.prototype.sort is stable: x goes after every element that does not
\* compare greater than it
RECURSIVE InsertByStartAsc(_, _)
InsertByStartAsc(x, s) ==
    IF s = <<>> THEN <<x>>
    ELSE IF StrLess(x.startDate, Head(s).startDate) THEN <<x>> \o s
    ELSE <<Head(s)>> \o InsertByStartAsc(x, Tail(s))

RECURSIVE SortByStartAsc(_)
SortByStartAsc(s) ==
    IF s = <<>> THEN <<>>
    ELSE InsertByStartAsc(s[Len(s)], SortByStartAsc(SubSeq(s, 1, Len(s) - 1)))

\* gapMonths >= 4, with gapMonths = days / 30.44
GapQualifies(currentExp, nextExp) ==
    (GetTimeDays(DateOf(nextExp.startDate))
       - GetTimeDays(DateOf(EndOrNow(currentExp)))) * 100 >= 4 * 3044

GapPosition(currentExp, nextExp) ==
    [afterEnd    |-> EndOrNow(currentExp),
     beforeStart |-> nextExp.startDate,
     gapMonths   |-> FloorMonths(DateOf(EndOrNow(currentExp)),
                                 DateOf(nextExp.startDate))]

RECURSIVE GapsFrom(_, _)
GapsFrom(sorted, i) ==
    IF i > Len(sorted) - 1 THEN <<>>
    ELSE (IF GapQualifies(sorted[i], sorted[i + 1])
          THEN <<GapPosition(sorted[i], sorted[i + 1])>>
          ELSE <<>>) \o GapsFrom(sorted, i + 1)

\* a sort applied to the caller's array itself
SortedInPlace(exps) == SortByStartAsc(exps)

\* "[...profile.workExperiences].sort(...)": the spread makes the array that
\* is sorted, the caller's array is left as it is
CallerListAfterSort(exps) == exps

DetectGaps ==
    /\ pc = "gaps"
    /\ sortedExistingExps' = SortByStartAsc(workExperiences)
    /\ workExperiences' = CallerListAfterSort(workExperiences)
    /\ insertPositions' = GapsFrom(sortedExistingExps', 1)
    /\ remainingYears' = supplementYears
    /\ currentEnd' = sortedExistingExps'[1].startDate
    /\ posIdx' = 1
    /\ pc' = "ingap"
    /\ UNCHANGED <<invokeVars, validatorVars, birthday, experience, totalMonths,
                   supplementYears, supplementSegments, allWorkExperiences>>

-----------------------------------------------------------------------------
(* In-gap insertion loop (lines 125-160)                                    *)

\* availableYears = Math.min(remainingYears, pos.gapMonths / 12, 3), in twelfths
AvailableTwelfths(pos, rem) == Min(Min(12 * rem, pos.gapMonths), 12 * 3)

\* endDate: one month before the next real interval starts
InGapEnd(pos) == DateOf(pos.beforeStart) - 1

\* startDate: Math.floor(availableYears) years before endDate, moved to one
\* month after the previous real interval's end when it would precede it
InGapStart(pos, rem) ==
    LET startDate   == InGapEnd(pos) - 12 * (AvailableTwelfths(pos, rem) \div 12)
        prevEndDate == DateOf(pos.afterEnd)
    IN  IF startDate < prevEndDate THEN prevEndDate + 1 ELSE startDate

InGapYears(pos, rem) == FloorYears(InGapStart(pos, rem), InGapEnd(pos))

\* whether this iteration pushes a segment
InGapPushes(pos, rem) ==
    /\ AvailableTwelfths(pos, rem) * 2 >= 12
    /\ InGapYears(pos, rem) > 0

InGapSegment(pos, rem) ==
    [startDate |-> FormatYM(InGapStart(pos, rem)),
     endDate   |-> FormatYM(InGapEnd(pos)),
     years     |-> InGapYears(pos, rem)]

InsertInGap ==
    /\ pc = "ingap"
    /\ posIdx <= Len(insertPositions)
    /\ remainingYears > 0
    /\ LET pos == insertPositions[posIdx]
       IN  IF InGapPushes(pos, remainingYears)
           THEN /\ supplementSegments' =
                      Append(supplementSegments, InGapSegment(pos, remainingYears))
                /\ remainingYears' = remainingYears - InGapYears(pos, remainingYears)
           ELSE UNCHANGED <<supplementSegments, remainingYears>>
    /\ posIdx' = posIdx + 1
    /\ UNCHANGED <<invokeVars, validatorVars, pc, workExperiences, birthday, experience, totalMonths,
                   supplementYears, sortedExistingExps, insertPositions,
                   currentEnd, allWorkExperiences>>

\* the for loop ends: positions exhausted, or "if (remainingYears <= 0) break"
LeaveGaps ==
    /\ pc = "ingap"
    /\ (posIdx > Len(insertPositions) \/ remainingYears <= 0)
    /\ pc' = "backward"
    /\ UNCHANGED <<invokeVars, validatorVars, workExperiences, birthday, experience, totalMonths,
                   supplementYears, sortedExistingExps, insertPositions, posIdx,
                   remainingYears, currentEnd, supplementSegments,
                   allWorkExperiences>>

-----------------------------------------------------------------------------
(* Backward allocation loop (lines 163-199)                                 *)

BackwardEnd(cur) == DateOf(cur) - 1

\* the start before the floor check
BackwardRawStart(cur, rem) == BackwardEnd(cur) - 12 * Min(rem, 3)

BackwardClamped(cur, rem) == BackwardRawStart(cur, rem) < DateOf(earliestWorkDate)

\* a start that is not held back by the earliest work date
BackwardStartUnclamped(cur, rem) == BackwardRawStart(cur, rem)

BackwardStart(cur, rem) ==
    IF BackwardClamped(cur, rem) THEN DateOf(earliestWorkDate)
    ELSE BackwardRawStart(cur, rem)

\* actualSegmentYears of the clamped branch
ClampedYears(cur) ==
    (Max(0, GetTimeDays(BackwardEnd(cur)) - GetTimeDays(DateOf(earliestWorkDate)))
       * 100) \div 36528

\* an iteration that leaves remainingYears as it is
NoDecrement(cur, rem) == 0

\* what the iteration subtracts from remainingYears
BackwardDecrement(cur, rem) ==
    IF BackwardClamped(cur, rem) THEN ClampedYears(cur) ELSE Min(rem, 3)

\* "if (actualSegmentYears <= 0) break"
BackwardBreaks(cur, rem) == BackwardClamped(cur, rem) /\ ClampedYears(cur) <= 0

BackwardSegment(cur, rem) ==
    [startDate |-> FormatYM(BackwardStart(cur, rem)),
     endDate   |-> FormatYM(BackwardEnd(cur)),
     years     |-> FloorYears(BackwardStart(cur, rem), BackwardEnd(cur))]

AllocateBackward ==
    /\ pc = "backward"
    /\ remainingYears > 0
    /\ remainingYears' = remainingYears - BackwardDecrement(currentEnd, remainingYears)
    /\ IF BackwardBreaks(currentEnd, remainingYears)
       THEN /\ pc' = "merge"
            /\ UNCHANGED <<supplementSegments, currentEnd>>
       ELSE /\ supplementSegments' =
                  Append(supplementSegments,
                         BackwardSegment(currentEnd, remainingYears))
            /\ currentEnd' = FormatYM(BackwardStart(currentEnd, remainingYears))
            /\ UNCHANGED pc
    /\ UNCHANGED <<invokeVars, validatorVars, workExperiences, birthday, experience, totalMonths,
                   supplementYears, sortedExistingExps, insertPositions, posIdx,
                   allWorkExperiences>>

\* "while (remainingYears > 0)" is false
LeaveBackward ==
    /\ pc = "backward"
    /\ remainingYears <= 0
    /\ pc' = "merge"
    /\ UNCHANGED <<invokeVars, validatorVars, workExperiences, birthday, experience, totalMonths,
                   supplementYears, sortedExistingExps, insertPositions, posIdx,
                   remainingYears, currentEnd, supplementSegments,
                   allWorkExperiences>>

-----------------------------------------------------------------------------
(* Timeline merge (lines 203-229)                                           *)

ExistingEntry(idx) ==
    [startDate |-> workExperiences[idx].startDate,
     endDate   |-> EndOrNow(workExperiences[idx]),
     type      |-> "existing",
     index     |-> idx - 1]

\* a supplement entry has no index property: -1 stands for undefined
SupplementEntry(seg) ==
    [startDate |-> seg.startDate,
     endDate   |-> seg.endDate,
     type      |-> "supplement",
     index     |-> -1]

Unsorted ==
    [i \in 1..Len(workExperiences) |-> ExistingEntry(i)]
    \o [i \in 1..Len(supplementSegments) |-> SupplementEntry(supplementSegments[i])]

\* the comparator written as "dateA - dateB"
OlderFirst(a, b) == GetTimeDays(DateOf(a.startDate)) - GetTimeDays(DateOf(b.startDate)) < 0

\* the comparator "dateB - dateA" is negative: a sorts before b
NewerFirst(a, b) == GetTimeDays(DateOf(b.startDate)) - GetTimeDays(DateOf(a.startDate)) < 0

RECURSIVE InsertByStartDesc(_, _)
InsertByStartDesc(x, s) ==
    IF s = <<>> THEN <<x>>
    ELSE IF NewerFirst(x, Head(s)) THEN <<x>> \o s
    ELSE <<Head(s)>> \o InsertByStartDesc(x, Tail(s))

RECURSIVE SortByStartDesc(_)
SortByStartDesc(s) ==
    IF s = <<>> THEN <<>>
    ELSE InsertByStartDesc(s[Len(s)], SortByStartDesc(SubSeq(s, 1, Len(s) - 1)))

MergeTimeline ==
    /\ pc = "merge"
    /\ allWorkExperiences' = SortByStartDesc(Unsorted)
    /\ pc' = "invoke"
    /\ UNCHANGED <<invokeVars, validatorVars, workExperiences, birthday, experience, totalMonths,
                   supplementYears, sortedExistingExps, insertPositions, posIdx,
                   remainingYears, currentEnd, supplementSegments>>

-----------------------------------------------------------------------------
(* Properties of the timeline computation                                   *)

\* the month ranges [start, end] of two intervals share a month
Overlaps(a, b) ==
    /\ DateOf(a.startDate) <= DateOf(b.endDate)
    /\ DateOf(b.startDate) <= DateOf(a.endDate)

RealIntervals ==
    { [startDate |-> workExperiences[i].startDate,
       endDate   |-> EndOrNow(workExperiences[i])] : i \in 1..Len(workExperiences) }

\* the caller's real intervals are pairwise disjoint
RealsDisjoint ==
    \A i, j \in 1..Len(workExperiences) :
        i < j => ~Overlaps(ExistingEntry(i), ExistingEntry(j))

\* C1: once the allocator has run, no synthetic segment shares a month with a
\* real interval or with another synthetic segment (checked on inputs whose
\* real intervals are themselves pairwise disjoint).
C1_NoOverlap ==
    (pc = "invoke" /\ RealsDisjoint) =>
        /\ \A i \in 1..Len(supplementSegments) :
               \A r \in RealIntervals : ~Overlaps(supplementSegments[i], r)
        /\ \A i, j \in 1..Len(supplementSegments) :
               i < j => ~Overlaps(supplementSegments[i], supplementSegments[j])

\* C2: no synthetic segment, in-gap or backward, starts before the
\* legal-work-start floor (July of birth year + 19).
C2_NotBeforeFloor ==
    \A i \in 1..Len(supplementSegments) :
        ~StrLess(supplementSegments[i].startDate, earliestWorkDate)

RECURSIVE SpanMonthsSum(_)
SpanMonthsSum(segs) ==
    IF segs = <<>> THEN 0
    ELSE (DateOf(Head(segs).endDate) - DateOf(Head(segs).startDate))
         + SpanMonthsSum(Tail(segs))

\* C8: the synthetic segments' spans sum to at most supplementYears years, and
\* there is no synthetic segment when supplementYears is 0.
C8_AllocatedAtMostRequested ==
    (pc = "invoke") =>
        /\ SpanMonthsSum(supplementSegments) <= 12 * supplementYears
        /\ (supplementYears = 0 => supplementSegments = <<>>)

\* the months between the end of sorted real interval i and the start of i+1
GapBetween(i) ==
    DateOf(sortedExistingExps[i + 1].startDate)
      - DateOf(EndOrNow(sortedExistingExps[i]))

\* a synthetic segment lies strictly inside the gap after sorted real interval i
SegmentInsideGap(i) ==
    \E k \in 1..Len(supplementSegments) :
        /\ DateOf(supplementSegments[k].startDate)
             > DateOf(EndOrNow(sortedExistingExps[i]))
        /\ DateOf(supplementSegments[k].endDate)
             < DateOf(sortedExistingExps[i + 1].startDate)

\* C9: with two real intervals 6 months apart and at least one year to
\* supplement, a synthetic segment is placed inside that gap.
C9_SixMonthGapIsFilled ==
    (/\ pc = "invoke"
     /\ supplementYears >= 1
     /\ Len(sortedExistingExps) = 2
     /\ GapBetween(1) = 6) => SegmentInsideGap(1)

\* the month span of a real interval, "present" taken as the current month
RealSpan(exp) ==
    DateOf(IF exp.endDate = Present THEN now ELSE exp.endDate) - DateOf(exp.startDate)

RECURSIVE RealSpanSum(_)
RealSpanSum(exps) ==
    IF exps = <<>> THEN 0 ELSE RealSpan(Head(exps)) + RealSpanSum(Tail(exps))

\* C7: actualTenureMonths is the sum of the real intervals' month spans
\* ("present" is the current month, 0 for an empty list) and
\* supplementYearsNeeded is max(0, minimumYears - floor(actualTenureMonths / 12)).
C7_TenureAndSupplement ==
    (pc # "tenure") =>
        /\ totalMonths = RealSpanSum(workExperiences)
        /\ supplementYears =
             Max(0, requiredExp.min - (RealSpanSum(workExperiences) \div 12))

C7_Witness ==
    /\ pc = "invoke"
    /\ Len(workExperiences) = 2
    /\ workExperiences[1].endDate = Present
    /\ workExperiences[2].endDate # Present
    /\ totalMonths > 12
    /\ totalMonths % 12 # 0
    /\ supplementYears > 0

\* the place an entry of the merged timeline had before sorting: real
\* intervals in the caller's order, then the synthetic segments as allocated
OriginalRank(e) ==
    IF e.type = "existing" THEN e.index
    ELSE Len(workExperiences) - 1
         + (CHOOSE k \in 1..Len(supplementSegments) :
              /\ supplementSegments[k].startDate = e.startDate
              /\ supplementSegments[k].endDate = e.endDate)

\* C6: the merged timeline holds every interval, its start dates never
\* increase, and entries with the same start date keep their original
\* relative order (a real interval before a synthetic one).
C6_SortedDescendingStable ==
    (pc = "invoke") =>
        /\ Len(allWorkExperiences) = Len(workExperiences) + Len(supplementSegments)
        /\ \A i, j \in 1..Len(allWorkExperiences) :
               i < j =>
                 /\ ~StrLess(allWorkExperiences[i].startDate,
                             allWorkExperiences[j].startDate)
                 /\ (allWorkExperiences[i].startDate = allWorkExperiences[j].startDate
                       => OriginalRank(allWorkExperiences[i])
                            < OriginalRank(allWorkExperiences[j]))

C6_Witness ==
    /\ pc = "invoke"
    /\ \E i, j \in 1..Len(allWorkExperiences) :
          /\ i < j
          /\ allWorkExperiences[i].startDate = allWorkExperiences[j].startDate
          /\ allWorkExperiences[i].type = "existing"
          /\ allWorkExperiences[j].type = "supplement"
    /\ \E i \in 1..Len(allWorkExperiences) :
          StrLess(allWorkExperiences[i].startDate, allWorkExperiences[1].startDate)

-----------------------------------------------------------------------------
(* GeminiService.generateContent (geminiService.ts lines 65-96)             *)

models == <<"gemini-2.0-flash", "gemini-2.5-pro">>

\* a call that throws (transport, quota, blocked response) and one that
\* yields response.text()
Fail(reason) == [ok |-> FALSE, reason |-> reason, text |-> <<>>]
Answer(raw)  == [ok |-> TRUE,  reason |-> "",     text |-> raw]

\* a loop that keeps the answer but goes on to the remaining models
LoopExitAfterLastModel(idx, o) ==
    IF idx < Len(models) THEN "continue"
    ELSE IF o.ok THEN "return" ELSE "throw"

\* an aggregate error that would name the first model's failure
AggregateErrorOfFirst(o) ==
    [kind |-> "AllModelsFailed", reason |-> service[1].reason]

\* throw new Error(`... ${error.message}`) in the catch of the last model
AggregateError(o) == [kind |-> "AllModelsFailed", reason |-> o.reason]

\* how one iteration of the loop over models ends
LoopExit(idx, o) ==
    IF o.ok THEN "return"
    ELSE IF idx = Len(models) THEN "throw"
    ELSE "continue"

\* a loop that calls the failed model once more before moving on
RetrySameModel(idx) == IF Len(calls) < Len(models) THEN idx ELSE idx + 1

\* "for (const modelName of models)": the model of the next iteration
NextModel(idx) == idx + 1

\* "model.generateContent(prompt)" of the current iteration is issued and the
\* loop is suspended at the await (line 79)
StartAttempt ==
    /\ pc = "invoke"
    /\ calls' = Append(calls, models[modelIdx])
    /\ inFlight' = inFlight \cup {modelIdx}
    /\ pc' = "await"
    /\ UNCHANGED <<workExperiences, birthday, experience, totalMonths,
                   supplementYears, sortedExistingExps, insertPositions, posIdx,
                   remainingYears, currentEnd, supplementSegments,
                   allWorkExperiences, job, service, modelIdx, aiResponse,
                   error, result, validatorVars>>

\* the awaited call settles: the iteration returns the text, throws, or the
\* loop goes on with the next model (lines 80-92)
AttemptModel ==
    /\ pc = "await"
    /\ inFlight' = inFlight \ {modelIdx}
    /\ LET o    == service[modelIdx]
           exit == LoopExit(modelIdx, o)
       IN  /\ pc' = IF exit = "return" THEN "parse"
                    ELSE IF exit = "throw" THEN "thrown" ELSE "invoke"
           /\ aiResponse' = IF exit = "return" THEN o.text ELSE aiResponse
           /\ error' = IF exit = "throw" THEN AggregateError(o) ELSE error
           /\ modelIdx' = IF exit = "continue" THEN NextModel(modelIdx)
                          ELSE modelIdx
    /\ UNCHANGED <<workExperiences, birthday, experience, totalMonths,
                   supplementYears, sortedExistingExps, insertPositions, posIdx,
                   remainingYears, currentEnd, supplementSegments,
                   allWorkExperiences, job, service, calls, result,
                   validatorVars>>

\* (the "return ''" after the loop, line 95, is never reached: the last
\* model's iteration returns or throws)

-----------------------------------------------------------------------------
(* enhance after generateContent returned (resumeAIService.ts 381-398)      *)

isEnglish == job.language = "english"

\* a title that ignores the requested language
targetTitleChineseOnly == job.title_chinese

\* isEnglish ? (job.title_english || job.title_chinese) : job.title_chinese
targetTitle ==
    IF isEnglish
    THEN (IF job.title_english # "" THEN job.title_english ELSE job.title_chinese)
    ELSE job.title_chinese

MergedResult(data) ==
    [position             |-> targetTitle,
     yearsOfExperience    |-> data.fields["yearsOfExperience"],
     personalIntroduction |-> data.fields["personalIntroduction"],
     professionalSkills   |-> data.fields["professionalSkills"],
     workExperience       |-> data.fields["workExperience"]]

ParseResponse ==
    /\ pc = "parse"
    /\ LET jsonStr == JsonStr(aiResponse)
       IN  IF ~Parses(jsonStr)
           THEN /\ error' = [kind |-> "SyntaxError", reason |-> ""]
                /\ pc' = "thrown"
                /\ UNCHANGED result
           ELSE IF ReadThrows(jsonStr[1])
           THEN /\ error' = [kind |-> "TypeError", reason |-> ""]
                /\ pc' = "thrown"
                /\ UNCHANGED result
           ELSE /\ result' = MergedResult(jsonStr[1])
                /\ pc' = "returned"
                /\ UNCHANGED error
    /\ UNCHANGED <<workExperiences, birthday, experience, totalMonths,
                   supplementYears, sortedExistingExps, insertPositions, posIdx,
                   remainingYears, currentEnd, supplementSegments,
                   allWorkExperiences, job, service, modelIdx, calls, inFlight,
                   aiResponse, validatorVars>>

-----------------------------------------------------------------------------
(* The validator callback applied to one raw response (lines 363-379)       *)

NoProfile ==
    /\ workExperiences = <<>>
    /\ birthday = NoBirthday
    /\ experience = [kind |-> "other", a |-> 0, b |-> 0]
    /\ job = [language |-> "chinese", title_english |-> "", title_chinese |-> "HouDuan"]
    /\ service = <<[ok |-> FALSE, reason |-> "503", text |-> <<>>],
                   [ok |-> FALSE, reason |-> "503", text |-> <<>>]>>

InitValidator ==
    /\ Fresh
    /\ NoProfile
    /\ text \in ValidatorTexts
    /\ verdict = "none"

Validate ==
    /\ verdict = "none"
    /\ verdict' = IF ValidatorAccepts(text) THEN "legal" ELSE "illegal"
    /\ UNCHANGED <<timelineVars, invokeVars, text>>

NextValidator == Validate

SpecValidator == InitValidator /\ [][NextValidator]_vars

\* the response is one JSON document, bare or inside a pair of fences
HasDocument(raw) ==
    [i \in 1..Len(raw) |-> raw[i].tok] \in
        { <<"json">>,
          <<"ws", "json", "ws">>,
          <<"fenceJson", "ws", "json", "ws", "fence">>,
          <<"fence", "ws", "json", "ws", "fence">> }

DocumentOf(raw) == raw[CHOOSE i \in 1..Len(raw) : raw[i].tok = "json"]

\* C10: a response is declared illegal exactly when it does not parse as JSON
\* once the fences are stripped, or a required field is absent or is a
\* placeholder token (up to case and surrounding white space); in particular
\* a response whose personalIntroduction is the "not available" placeholder is
\* illegal.
C10_IllegalExactlyWhen ==
    (verdict # "none") =>
        /\ verdict = "legal" <=>
             /\ HasDocument(text)
             /\ DocumentOf(text).kind = "object"
             /\ \A i \in 1..Len(requiredFields) :
                    DocumentOf(text).fields[requiredFields[i]] \in GoodValues
        /\ (/\ HasDocument(text)
            /\ DocumentOf(text).fields["personalIntroduction"] = JStr(<<"zan","wu">>))
             => verdict = "illegal"

C10_Witness ==
    /\ verdict = "illegal"
    /\ text = << JsonObject([position             |-> JStr(sDev),
                             yearsOfExperience    |-> JNum(<<"0">>),
                             personalIntroduction |-> JStr(<<"zan","wu">>),
                             professionalSkills   |-> JArr(<<sObj, sObj>>),
                             workExperience       |-> JArr(<<sObj>>)]) >>

-----------------------------------------------------------------------------

NextTimeline ==
    \/ ComputeTenure
    \/ DetectGaps
    \/ InsertInGap
    \/ LeaveGaps
    \/ AllocateBackward
    \/ LeaveBackward
    \/ MergeTimeline

SpecTimeline == InitTimeline /\ [][NextTimeline]_vars

-----------------------------------------------------------------------------
(* One whole request                                                        *)

Exp(s, e) == [startDate |-> s, endDate |-> e]

Profile(exps, b, req) == [workExperiences |-> exps, birthday |-> b, experience |-> req]

ProfilePool ==
    { Profile(<<>>, NoBirthday, [kind |-> "range", a |-> 1, b |-> 3]),
      Profile(<<Exp(<<2022, 1>>, Present)>>, <<2000, 5>>,
              [kind |-> "range", a |-> 5, b |-> 10]),
      Profile(<<Exp(<<2022, 1>>, Present)>>, <<1996, 3>>,
              [kind |-> "atLeast", a |-> 3, b |-> 0]),
      Profile(<<Exp(<<2021, 7>>, Present), Exp(<<2019, 1>>, <<2020, 1>>)>>, <<1996, 3>>,
              [kind |-> "range", a |-> 5, b |-> 10]),
      Profile(<<Exp(<<2017, 1>>, <<2021, 7>>), Exp(<<2022, 1>>, Present)>>, NoBirthday,
              [kind |-> "other", a |-> 0, b |-> 0]),
      Profile(<<Exp(<<2021, 7>>, Present), Exp(NoDate, <<2020, 1>>)>>, <<1996, 3>>,
              [kind |-> "other", a |-> 0, b |-> 0]) }

JobPool ==
    { [language |-> "english", title_english |-> "Backend Developer",
       title_chinese |-> "HouDuan"],
      [language |-> "english", title_english |-> "", title_chinese |-> "HouDuan"],
      [language |-> "chinese", title_english |-> "Backend Developer",
       title_chinese |-> "HouDuan"] }

WithField(doc, f, v) ==
    [doc EXCEPT !.fields = [doc.fields EXCEPT ![f] = v]]

ServiceTexts ==
    { <<AllGood>>,
      <<Tok("fenceJson"), Tok("ws"), WithField(AllGood, "position", JStr(sPro)),
        Tok("ws"), Tok("fence")>>,
      <<WithField(AllGood, "personalIntroduction", JStr(<<"zan","wu">>))>>,
      <<Tok("fenceJson"), Tok("ws"), WithField(AllGood, "workExperience", Undefined),
        Tok("ws"), Tok("fence")>>,
      <<Tok("prose")>>,
      <<JsonOther("null")>> }

ServiceOutcomes ==
    { Fail("503 Service Unavailable"), Fail("429 Too Many Requests") }
    \cup { Answer(raw) : raw \in ServiceTexts }

Init ==
    /\ Fresh
    /\ \E p \in ProfilePool :
          /\ workExperiences = p.workExperiences
          /\ birthday = p.birthday
          /\ experience = p.experience
    /\ job \in JobPool
    /\ service \in [1..Len(models) -> ServiceOutcomes]
    /\ text = <<>>
    /\ verdict = "none"

Next ==
    \/ ComputeTenure
    \/ DetectGaps
    \/ InsertInGap
    \/ LeaveGaps
    \/ AllocateBackward
    \/ LeaveBackward
    \/ MergeTimeline
    \/ StartAttempt
    \/ AttemptModel
    \/ ParseResponse

Spec == Init /\ [][Next]_vars

-----------------------------------------------------------------------------
(* Properties of the invocation                                             *)

\* generateContent has returned or thrown
InvokerDone == calls # <<>> /\ pc \in {"parse", "returned", "thrown"}

Exhausted == error.kind = "AllModelsFailed"

\* candidate i's call succeeds and the validator accepts its text
Legal(i) == service[i].ok /\ ValidatorAccepts(service[i].text)

\* C3: when the first candidate's call succeeds with a legal response, its raw
\* text is returned after exactly one generation call; and no candidate is
\* ever called after a candidate that gave a legal result.
C3_FirstLegalResultReturned ==
    /\ (InvokerDone /\ Legal(1)) =>
           /\ ~Exhausted
           /\ aiResponse = service[1].text
           /\ calls = <<models[1]>>
    /\ \A i \in 1..Len(calls) : Legal(i) => Len(calls) = i

C3_Witness ==
    /\ pc = "returned"
    /\ Legal(1)
    /\ service[2].ok
    /\ calls = <<"gemini-2.0-flash">>
    /\ aiResponse = service[1].text

\* C4: the exhausted-candidates error is raised if and only if every candidate
\* failed at transport level or returned an illegal response; otherwise a
\* legal response is returned.
C4_ExhaustedIffNoLegalCandidate ==
    InvokerDone =>
        /\ Exhausted <=> (\A i \in 1..Len(models) : ~Legal(i))
        /\ ~Exhausted => ValidatorAccepts(aiResponse)

\* C5: a text the validator declares illegal is never returned: the attempt
\* counts as a failure and the next candidate is called.
C5_IllegalTextNeverReturned ==
    /\ (InvokerDone /\ ~Exhausted) => ValidatorAccepts(aiResponse)
    /\ InvokerDone =>
           \A i \in 1..Len(calls) :
               (service[i].ok /\ ~ValidatorAccepts(service[i].text) /\ i < Len(models))
                   => Len(calls) > i

-----------------------------------------------------------------------------
(* Properties of the returned result and of failures                        *)

\* the document carried by the text generateContent returned
ReturnedDocument == JsonStr(aiResponse)[1]

\* C11: whenever enhance returns a result, its position is the target title
\* (language english: the English title, or the Chinese one when the English
\* title is empty; otherwise the Chinese title), whatever position the
\* model's response carried.
C11_PositionIsTargetTitle ==
    pc = "returned" =>
        result.position =
            (IF job.language = "english"
             THEN (IF job.title_english # "" THEN job.title_english
                   ELSE job.title_chinese)
             ELSE job.title_chinese)

C11_Witness ==
    /\ pc = "returned"
    /\ job.language = "english"
    /\ job.title_english = "Backend Developer"
    /\ result.position = "Backend Developer"
    /\ ReturnedDocument.fields["position"] = JStr(sPro)

\* every candidate's call fails
AllCandidatesFail == \A i \in 1..Len(models) : ~service[i].ok

\* C12: when every candidate model fails, one aggregate error is raised whose
\* reason is the failure reason of the last candidate attempted, and enhance
\* ends with that error instead of a result.
C12_AggregateErrorNamesLastReason ==
    (InvokerDone /\ AllCandidatesFail) =>
        /\ pc = "thrown"
        /\ error.kind = "AllModelsFailed"
        /\ error.reason = service[Len(calls)].reason
        /\ Len(calls) = Len(models)
        /\ result.position = ""
        /\ result.workExperience = Undefined

C12_Witness ==
    /\ pc = "thrown"
    /\ service[1] = Fail("503 Service Unavailable")
    /\ service[2] = Fail("429 Too Many Requests")
    /\ calls = models
    /\ error = [kind |-> "AllModelsFailed", reason |-> "429 Too Many Requests"]

\* C13: enhance fails only when every candidate model has been exhausted;
\* the tenure computation, the segment allocation and the merging of the
\* model's output never abort the request, whatever the input.
C13_InvokerIsSoleFatalBoundary ==
    pc = "thrown" =>
        /\ Exhausted
        /\ Len(calls) = Len(models)

-----------------------------------------------------------------------------
(* Properties of the backward allocation                                    *)

\* the allocation loops have been entered / are over
Allocating == pc \in {"ingap", "backward", "merge", "invoke"}
Allocated  == pc \in {"merge", "invoke"}

\* the synthetic segments that lie before the earliest real interval, in the
\* order they were produced
BackwardSegments ==
    LET IsBefore(seg) ==
            DateOf(seg.endDate) < DateOf(sortedExistingExps[1].startDate)
    IN  IF sortedExistingExps = <<>> THEN <<>>
        ELSE SelectSeq(supplementSegments, IsBefore)

\* C14: each backward segment ends one month before the running earliest
\* boundary (the earliest real start, then the previous backward segment's
\* start) and spans at most 3 years; a segment whose start would precede the
\* floor starts exactly at the floor and is the last one, even if requested
\* years remain.  One real interval 2022-01 to present, floor 2019-07 and 3
\* years to supplement give exactly the segment 2019-07 to 2021-12.
C14_BackwardAllocationClamped ==
    /\ Allocating =>
          \A k \in 1..Len(BackwardSegments) :
              LET seg      == BackwardSegments[k]
                  boundary == IF k = 1 THEN sortedExistingExps[1].startDate
                              ELSE BackwardSegments[k - 1].startDate
                  span     == DateOf(seg.endDate) - DateOf(seg.startDate)
                  floor    == (IF birthday = NoBirthday THEN 2000 ELSE birthday[1]) + 19
              IN  /\ DateOf(seg.endDate) = DateOf(boundary) - 1
                  /\ span <= 36
                  /\ ~StrLess(seg.startDate, <<floor, 7>>)
                  /\ span \in {12, 24, 36} \/ seg.startDate = <<floor, 7>>
                  /\ seg.startDate = <<floor, 7>> => k = Len(BackwardSegments)
    /\ ( /\ Allocated
         /\ workExperiences = <<[startDate |-> <<2022, 1>>, endDate |-> Present]>>
         /\ birthday = <<2000, 5>>
         /\ supplementYears = 3 )
          => supplementSegments =
               <<[startDate |-> <<2019, 7>>, endDate |-> <<2021, 12>>, years |-> 2]>>

C14_Witness ==
    /\ pc = "merge"
    /\ workExperiences = <<[startDate |-> <<2022, 1>>, endDate |-> Present]>>
    /\ birthday = <<2000, 5>>
    /\ experience = [kind |-> "range", a |-> 5, b |-> 10]
    /\ supplementYears = 3
    /\ remainingYears = 1
    /\ supplementSegments =
          <<[startDate |-> <<2019, 7>>, endDate |-> <<2021, 12>>, years |-> 2]>>

-----------------------------------------------------------------------------
(* Order of the generation calls                                            *)

\* C15: the candidate models are called strictly in list order, each at most
\* once, with at most one generation call in flight: the call to candidate
\* k+1 starts only after the call to candidate k has completed with a
\* failure, and no candidate is called again after it has been tried.
C15_SequentialAttempts ==
    /\ Len(calls) <= Len(models)
    /\ \A i \in 1..Len(calls) : calls[i] = models[i]
    /\ \A i, j \in 1..Len(calls) : i # j => calls[i] # calls[j]
    /\ Cardinality(inFlight) <= 1
    /\ inFlight \subseteq {Len(calls)}
    /\ \A i \in 1..Len(calls) :
           i < Len(calls) => (~service[i].ok /\ i \notin inFlight)

C15_Witness ==
    /\ pc = "await"
    /\ calls = models
    /\ inFlight = {2}
    /\ ~service[1].ok
    /\ service[2].ok

-----------------------------------------------------------------------------
(* Termination of the allocation                                            *)

\* the order in which enhance goes through its parts
Rank ==
    [tenure |-> 6, gaps |-> 5, ingap |-> 4, backward |-> 3, merge |-> 2,
     invoke |-> 1, thrown |-> 0]

\* C16: the allocation terminates for every input: control never goes back,
\* the in-gap loop advances its cursor over a fixed list on every iteration,
\* and every iteration of the backward loop strictly decreases the remaining
\* requested years (which stay non-negative) or leaves the loop, also when
\* the start is clamped to the floor and when the earliest real interval
\* already starts at or before the floor.
C16_AllocationTerminates ==
    [][ /\ Rank[pc'] <= Rank[pc]
        /\ (pc = "ingap" /\ pc' = "ingap") =>
              /\ posIdx <= Len(insertPositions)
              /\ posIdx' = posIdx + 1
              /\ insertPositions' = insertPositions
        /\ (pc = "backward" /\ pc' = "backward") =>
              /\ remainingYears' < remainingYears
              /\ remainingYears' >= 0 ]_vars

C16_Witness ==
    /\ pc = "merge"
    /\ remainingYears > 0
    /\ supplementSegments = <<>>
    /\ sortedExistingExps # <<>>
    /\ ~StrLess(earliestWorkDate, sortedExistingExps[1].startDate)

-----------------------------------------------------------------------------
(* Frame of the timeline computation                                        *)

\* how many entries of the sequence s satisfy P
Count(s, P(_)) == Cardinality({k \in 1..Len(s) : P(s[k])})

\* C17: tenure analysis, allocation and merge leave the caller's experience
\* list unchanged; the merged timeline holds every real interval exactly
\* once, with the index of its place in that list and that entry's start
\* date, every synthetic segment exactly once, and nothing else.
C17_CallerListUnchanged ==
    /\ [][workExperiences' = workExperiences]_vars
    /\ [](pc = "invoke" =>
            /\ \A i \in 1..Len(workExperiences) :
                  LET IsReal(e) == e.type = "existing" /\ e.index = i - 1
                      IsIt(e)   == /\ IsReal(e)
                                   /\ e.startDate = workExperiences[i].startDate
                  IN  Count(allWorkExperiences, IsReal) = 1
                      /\ Count(allWorkExperiences, IsIt) = 1
            /\ \A j \in 1..Len(supplementSegments) :
                  LET Same(x) == /\ x.startDate = supplementSegments[j].startDate
                                 /\ x.endDate = supplementSegments[j].endDate
                      IsSeg(e) == e.type = "supplement" /\ Same(e)
                  IN  Count(allWorkExperiences, IsSeg)
                        = Count(supplementSegments, Same)
            /\ Len(allWorkExperiences)
                  = Len(workExperiences) + Len(supplementSegments))

C17_Witness ==
    /\ pc = "invoke"
    /\ Len(workExperiences) = 2
    /\ StrLess(workExperiences[2].startDate, workExperiences[1].startDate)
    /\ sortedExistingExps = <<workExperiences[2], workExperiences[1]>>
    /\ supplementSegments # <<>>
    /\ allWorkExperiences[1].type = "existing"
    /\ allWorkExperiences[1].index = 0

====
